---- MODULE Spec2Model ----
(***************************************************************************)
(* A model of warthunder-ss.py: the time-windowed page cache around the    *)
(* thread-offloaded fetch (get_squadron_page_html), the positional roster  *)
(* decoder (get_players_ratings_from_squadron) and the statistics decoder   *)
(* (get_clan_stats).                                                       *)
(*                                                                         *)
(* Text is a sequence of one-character strings, so that strip(), lower(),  *)
(* isdigit() and int() are computed character by character.  The character *)
(* "^2" stands for U+00B2 SUPERSCRIPT TWO, which str.isdigit() accepts and *)
(* int() rejects.                                                          *)
(***************************************************************************)
EXTENDS Integers, Sequences, FiniteSets, TLC

VARIABLES
    disable_cache,  \* the module global set once from --no-cache
    html_cache,     \* dict: cache_key -> [content, timestamp]
    now,            \* the value time.time() returns
    ticks,          \* how often the clock has advanced (bounds the run)
    pc,             \* per request: where its get_squadron_page_html coroutine is
    squadronName,   \* per request: the argument of the call
    squadronInfoLink, \* per request: the URL its fetch is given
    thread,         \* per request: the worker thread running fetch(url)
    resp,           \* per request: resp.text the worker produced
    ready,          \* the event loop's FIFO of coroutines to wake up
    result,         \* per request: the value the call returned
    seen,           \* per request: what the cache check of the call observed
    fetches,        \* per request: how often the call started fetch()
    writes,         \* per request: how often the call assigned html_cache[..]
    stored,         \* per request: the entry the call assigned, if it did
    lastPost,       \* per key: the request whose fetch completed most recently
    html,           \* the markup get_players_ratings_from_squadron decodes
    rpc,            \* where get_players_ratings_from_squadron is
    tableElements,  \* the grid-item cells of the roster table, in document order
    idx,            \* how many cells the for loop has consumed
    rowCounter,
    playerKey,
    playerRating,
    playerActivity,
    playerRank,
    playerJoinDate,
    playerData,     \* dict: player name -> record
    printed,        \* the diagnostics printed so far
    error,          \* the exception that ended the decoder, if one did
    statsHtml,      \* the markup get_clan_stats decodes
    ul_index,       \* the group get_clan_stats is asked for
    spc,            \* where get_clan_stats is
    value_lis,      \* the value items of the chosen group still to be parsed
    values,         \* the parsed values, in document order
    mapped,         \* dict: label -> value, the result of get_clan_stats
    statsPrinted,   \* the diagnostics get_clan_stats printed
    statsError      \* the exception that ended get_clan_stats, if one did

cacheVars == <<disable_cache, html_cache, now, ticks, pc, squadronName,
               squadronInfoLink, thread,
               resp, ready, result, seen, fetches, writes, stored, lastPost>>

rosterVars == <<html, rpc, tableElements, idx, rowCounter, playerKey, playerRating,
                playerActivity, playerRank, playerJoinDate, playerData, printed, error>>

statsVars == <<statsHtml, ul_index, spc, value_lis, values, mapped, statsPrinted,
               statsError>>

vars == <<cacheVars, rosterVars, statsVars>>

----------------------------------------------------------------------------
(* Bounds of the model. *)

MaxCells == 12

MaxTicks == 2

Tasks == {1, 2}

TickSteps == {1, 3599}

----------------------------------------------------------------------------
(* Text helpers. *)

WhiteSpace == {" "}

LowerChar(c) == CASE c = "W" -> "w"
                  [] c = "X" -> "x"
                  [] OTHER -> c

\* str.lower()
Lower(s) == [i \in 1..Len(s) |-> LowerChar(s[i])]

RECURSIVE LStrip(_)
LStrip(s) == IF s # <<>> /\ Head(s) \in WhiteSpace THEN LStrip(Tail(s)) ELSE s

RECURSIVE RStrip(_)
RStrip(s) == IF s # <<>> /\ s[Len(s)] \in WhiteSpace
             THEN RStrip(SubSeq(s, 1, Len(s) - 1))
             ELSE s

\* str.strip()
Strip(s) == RStrip(LStrip(s))

\* "%20".join(s.split()): whitespace runs collapse to one "%20", none at the ends
RECURSIVE JoinWords(_, _)
JoinWords(s, pending) ==
    IF s = <<>> THEN <<>>
    ELSE IF Head(s) \in WhiteSpace THEN JoinWords(Tail(s), TRUE)
    ELSE (IF pending THEN <<"%20">> ELSE <<>>) \o <<Head(s)>> \o JoinWords(Tail(s), FALSE)

\* squadronInfoLink, without its constant prefix
InfoLink(name) == JoinWords(LStrip(name), FALSE)

\* cache_key
CacheKeyAsSupplied(name) == name
CacheKey(name) == Lower(name)

----------------------------------------------------------------------------
(* The cache. *)

CacheDuration == 3600

\* time.time() - cached_data['timestamp'] < 3600
IsRecentStale(t, timestamp) == t - timestamp <= CacheDuration
IsRecent(t, timestamp) == t - timestamp < CacheDuration

\* which entry a call for `name` looks at
LookupKeyRaw(name) == name
LookupKey(name) == CacheKey(name)

\* the test on lines 63-67: the call is served from the cache
CacheHit(name) ==
    /\ ~disable_cache
    /\ LookupKey(name) \in DOMAIN html_cache
    /\ IsRecent(now, html_cache[LookupKey(name)].timestamp)

\* html_cache[cache_key] = {'content': content, 'timestamp': time.time()}
CachePutFirstWins(cache, key, content, t) ==
    IF key \in DOMAIN cache THEN cache
    ELSE [k \in DOMAIN cache \cup {key} |->
            IF k = key THEN [content |-> content, timestamp |-> t] ELSE cache[k]]
CachePut(cache, key, content, t) ==
    [k \in DOMAIN cache \cup {key} |->
        IF k = key THEN [content |-> content, timestamp |-> t] ELSE cache[k]]

\* the guard of line 86
StoreFetchedAlways == TRUE
StoreFetched == ~disable_cache

\* what the except clause of lines 81-83 does with a failed fetch
OnFetchFailureRaise == [pc |-> "raised", value |-> "none"]
OnFetchFailure == [pc |-> "returned", value |-> ""]

Names == {<<"W">>, <<"w">>, <<"x">>}

Bodies == {"h1", "h2"}

NoEntry == [content |-> "none", timestamp |-> 0]

NoCheck == [present |-> FALSE, old |-> FALSE, content |-> "none", timestamp |-> 0]

Observe(name) ==
    IF CacheKey(name) \in DOMAIN html_cache
    THEN [present |-> TRUE,
          old |-> now >= html_cache[CacheKey(name)].timestamp + CacheDuration,
          content |-> html_cache[CacheKey(name)].content,
          timestamp |-> html_cache[CacheKey(name)].timestamp]
    ELSE NoCheck

RECURSIVE Without(_, _)
Without(q, p) == IF q = <<>> THEN <<>>
                 ELSE IF Head(q) = p THEN Without(Tail(q), p)
                 ELSE <<Head(q)>> \o Without(Tail(q), p)

CacheIdle ==
    /\ html_cache = <<>>
    /\ now = 0
    /\ ticks = 0
    /\ pc = [p \in Tasks |-> "idle"]
    /\ squadronName = [p \in Tasks |-> <<>>]
    /\ squadronInfoLink = [p \in Tasks |-> <<>>]
    /\ thread = [p \in Tasks |-> "none"]
    /\ resp = [p \in Tasks |-> "none"]
    /\ ready = <<>>
    /\ result = [p \in Tasks |-> "none"]
    /\ seen = [p \in Tasks |-> NoCheck]
    /\ fetches = [p \in Tasks |-> 0]
    /\ writes = [p \in Tasks |-> 0]
    /\ stored = [p \in Tasks |-> NoEntry]
    /\ lastPost = <<>>

CacheInit == disable_cache \in BOOLEAN /\ CacheIdle

\* time passes
Tick(d) ==
    /\ ticks < MaxTicks
    /\ now' = now + d
    /\ ticks' = ticks + 1
    /\ UNCHANGED <<disable_cache, html_cache, pc, squadronName, squadronInfoLink, thread, resp,
                   ready, result, seen, fetches, writes, stored, lastPost>>
    /\ UNCHANGED <<rosterVars, statsVars>>

\* lines 58-80: a request calls get_squadron_page_html(name) and runs to the
\* cached return or to the await of the worker thread
Call(p, name) ==
    /\ pc[p] = "idle"
    /\ squadronName' = [squadronName EXCEPT ![p] = name]
    /\ squadronInfoLink' = [squadronInfoLink EXCEPT ![p] = InfoLink(name)]
    /\ seen' = [seen EXCEPT ![p] = Observe(name)]
    /\ IF CacheHit(name)
       THEN /\ pc' = [pc EXCEPT ![p] = "returned"]
            /\ result' = [result EXCEPT ![p] = html_cache[LookupKey(name)].content]
            /\ UNCHANGED <<thread, fetches>>
       ELSE /\ pc' = [pc EXCEPT ![p] = "awaiting"]
            /\ thread' = [thread EXCEPT ![p] = "running"]
            /\ fetches' = [fetches EXCEPT ![p] = @ + 1]
            /\ UNCHANGED result
    /\ UNCHANGED <<disable_cache, html_cache, now, ticks, resp, ready, writes, stored, lastPost>>
    /\ UNCHANGED <<rosterVars, statsVars>>

\* the future of a finished worker wakes its coroutine unless that was cancelled
PostLost(p) == ready
Post(p) == IF pc[p] = "awaiting" THEN Append(ready, p) ELSE ready

\* lines 73-77: the worker thread returns resp.text
FetchOkStoresWhenCancelled(p, body) ==
    /\ thread[p] = "running"
    /\ thread' = [thread EXCEPT ![p] = "ok"]
    /\ resp' = [resp EXCEPT ![p] = body]
    /\ ready' = Post(p)
    /\ html_cache' = IF pc[p] = "cancelled" /\ ~disable_cache
                     THEN CachePut(html_cache, CacheKey(squadronName[p]), body, now)
                     ELSE html_cache
    /\ lastPost' = IF pc[p] = "awaiting"
                   THEN [k \in DOMAIN lastPost \cup {CacheKey(squadronName[p])} |->
                           IF k = CacheKey(squadronName[p]) THEN p ELSE lastPost[k]]
                   ELSE lastPost
    /\ UNCHANGED <<disable_cache, now, ticks, pc, squadronName, squadronInfoLink,
                   result, seen, fetches, writes, stored>>
    /\ UNCHANGED <<rosterVars, statsVars>>
FetchOk(p, body) ==
    /\ thread[p] = "running"
    /\ thread' = [thread EXCEPT ![p] = "ok"]
    /\ resp' = [resp EXCEPT ![p] = body]
    /\ ready' = Post(p)
    /\ lastPost' = IF pc[p] = "awaiting"
                   THEN [k \in DOMAIN lastPost \cup {CacheKey(squadronName[p])} |->
                           IF k = CacheKey(squadronName[p]) THEN p ELSE lastPost[k]]
                   ELSE lastPost
    /\ UNCHANGED <<disable_cache, html_cache, now, ticks, pc, squadronName, squadronInfoLink,
                   result, seen, fetches, writes, stored>>
    /\ UNCHANGED <<rosterVars, statsVars>>

\* lines 73-77: the worker thread raises (timeout, status, challenge, network)
FetchFail(p) ==
    /\ thread[p] = "running"
    /\ thread' = [thread EXCEPT ![p] = "failed"]
    /\ ready' = Post(p)
    /\ UNCHANGED <<disable_cache, html_cache, now, ticks, pc, squadronName, squadronInfoLink, resp,
                   result, seen, fetches, writes, stored, lastPost>>
    /\ UNCHANGED <<rosterVars, statsVars>>

\* lines 81-83: the await raised
ResumeFailedStores(p) ==
    /\ thread[p] = "failed"
    /\ pc' = [pc EXCEPT ![p] = "returned"]
    /\ result' = [result EXCEPT ![p] = ""]
    /\ html_cache' = CachePut(html_cache, CacheKey(squadronName[p]), "", now)
    /\ writes' = [writes EXCEPT ![p] = @ + 1]
    /\ stored' = [stored EXCEPT ![p] = [content |-> "", timestamp |-> now]]
ResumeFailedEvicts(p) ==
    /\ thread[p] = "failed"
    /\ pc' = [pc EXCEPT ![p] = "returned"]
    /\ result' = [result EXCEPT ![p] = ""]
    /\ html_cache' = [k \in DOMAIN html_cache \ {CacheKey(squadronName[p])} |-> html_cache[k]]
    /\ UNCHANGED <<writes, stored>>
ResumeFailedRefreshes(p) ==
    /\ thread[p] = "failed"
    /\ pc' = [pc EXCEPT ![p] = "returned"]
    /\ result' = [result EXCEPT ![p] = ""]
    /\ html_cache' = [k \in DOMAIN html_cache |->
                        IF k = CacheKey(squadronName[p])
                        THEN [html_cache[k] EXCEPT !.timestamp = now]
                        ELSE html_cache[k]]
    /\ UNCHANGED <<writes, stored>>
ResumeFailed(p) ==
    /\ thread[p] = "failed"
    /\ pc' = [pc EXCEPT ![p] = OnFetchFailure.pc]
    /\ result' = [result EXCEPT ![p] = OnFetchFailure.value]
    /\ UNCHANGED <<html_cache, writes, stored>>

\* lines 85-93: the await returned content
ResumeFetched(p) ==
    /\ thread[p] = "ok"
    /\ IF StoreFetched
       THEN /\ html_cache' = CachePut(html_cache, CacheKey(squadronName[p]), resp[p], now)
            /\ writes' = [writes EXCEPT ![p] = @ + 1]
            /\ stored' = [stored EXCEPT ![p] = [content |-> resp[p], timestamp |-> now]]
       ELSE UNCHANGED <<html_cache, writes, stored>>
    /\ pc' = [pc EXCEPT ![p] = "returned"]
    /\ result' = [result EXCEPT ![p] = resp[p]]

\* lines 80-93: the event loop resumes the coroutine at the head of its queue
Resume ==
    /\ ready # <<>>
    /\ LET p == Head(ready) IN
         /\ pc[p] = "awaiting"
         /\ ResumeFailed(p) \/ ResumeFetched(p)
    /\ ready' = Tail(ready)
    /\ UNCHANGED <<disable_cache, now, ticks, squadronName, squadronInfoLink, thread, resp, seen,
                   fetches, lastPost>>
    /\ UNCHANGED <<rosterVars, statsVars>>

\* line 80: the request is cancelled while it awaits the worker; CancelledError
\* is no Exception, so the coroutine ends there and the worker runs on
Cancel(p) ==
    /\ pc[p] = "awaiting"
    /\ pc' = [pc EXCEPT ![p] = "cancelled"]
    /\ ready' = Without(ready, p)
    /\ UNCHANGED <<disable_cache, html_cache, now, ticks, squadronName, squadronInfoLink, thread,
                   resp, result, seen, fetches, writes, stored, lastPost>>
    /\ UNCHANGED <<rosterVars, statsVars>>

\* the request is over and its slot serves the next request
Finish(p) ==
    /\ pc[p] \in {"returned", "cancelled", "raised"}
    /\ thread[p] # "running"
    /\ pc' = [pc EXCEPT ![p] = "idle"]
    /\ squadronName' = [squadronName EXCEPT ![p] = <<>>]
    /\ squadronInfoLink' = [squadronInfoLink EXCEPT ![p] = <<>>]
    /\ thread' = [thread EXCEPT ![p] = "none"]
    /\ resp' = [resp EXCEPT ![p] = "none"]
    /\ result' = [result EXCEPT ![p] = "none"]
    /\ seen' = [seen EXCEPT ![p] = NoCheck]
    /\ fetches' = [fetches EXCEPT ![p] = 0]
    /\ writes' = [writes EXCEPT ![p] = 0]
    /\ stored' = [stored EXCEPT ![p] = NoEntry]
    /\ lastPost' = [k \in {j \in DOMAIN lastPost : lastPost[j] # p} |-> lastPost[k]]
    /\ UNCHANGED <<disable_cache, html_cache, now, ticks, ready>>
    /\ UNCHANGED <<rosterVars, statsVars>>

CacheNext ==
    \/ \E d \in TickSteps : Tick(d)
    \/ \E p \in Tasks, name \in Names : Call(p, name)
    \/ \E p \in Tasks, body \in Bodies : FetchOk(p, body)
    \/ \E p \in Tasks : FetchFail(p)
    \/ Resume
    \/ \E p \in Tasks : Cancel(p)
    \/ \E p \in Tasks : Finish(p)

----------------------------------------------------------------------------
(* The roster decoder. *)

RowWidth == 6

\* the value None of playerRating and playerActivity
None == 0 - 1

\* a local variable the function has not assigned yet
UnboundInt == 0 - 2
UnboundText == <<"unbound">>

DecimalValue == [c \in {"0", "1", "2", "3", "5", "7"} |->
                    CASE c = "0" -> 0 [] c = "1" -> 1 [] c = "2" -> 2
                      [] c = "3" -> 3 [] c = "5" -> 5 [] c = "7" -> 7]

DecimalChars == DOMAIN DecimalValue

\* characters str.isdigit() accepts: the decimals and digits such as U+00B2
DigitChars == DecimalChars \cup {"^2"}

\* str.isdigit()
IsDigit(s) == s # <<>> /\ \A i \in 1..Len(s) : s[i] \in DigitChars

RECURSIVE DecimalOf(_)
DecimalOf(s) == IF s = <<>> THEN 0
                ELSE 10 * DecimalOf(SubSeq(s, 1, Len(s) - 1)) + DecimalValue[s[Len(s)]]

\* int(s) on a string of digits: a ValueError unless every digit is a decimal
IntOf(s) ==
    IF s # <<>> /\ \A i \in 1..Len(s) : s[i] \in DecimalChars
    THEN [ok |-> TRUE, value |-> DecimalOf(s)]
    ELSE [ok |-> FALSE, value |-> None]

\* the BeautifulSoup view of a page: whether it holds the roster table, and
\* the text of the table's grid-item cells
EmptyMarkup == [table |-> FALSE, cells |-> <<>>]

CellPool(position) ==
    CASE position = 0 -> {<<"#">>, <<"1">>}
      [] position = 1 -> {<<"A">>, <<" ", "B">>}
      [] position = 2 -> {<<"1", "2">>, <<" ", "7">>, <<"N", "/", "A">>, <<"^2">>}
      [] position = 3 -> {<<"3">>, <<"-", "3">>, <<"^2">>}
      [] position = 4 -> {<<"P">>, <<"O">>}
      [] position = 5 -> {<<"d", "1", " ">>}

RECURSIVE CellSeqs(_)
CellSeqs(n) ==
    IF n = 0 THEN {<<>>}
    ELSE {Append(cells, c) : cells \in CellSeqs(n - 1), c \in CellPool((n - 1) % RowWidth)}

\* the pages a fetch can deliver: "" and pages without the roster table, and
\* pages whose roster table holds up to MaxCells cells
Markups ==
    {EmptyMarkup} \cup
    {[table |-> TRUE, cells |-> c] : c \in UNION {CellSeqs(n) : n \in 0..MaxCells}}

RosterIdle ==
    /\ html = EmptyMarkup
    /\ rpc = "idle"
    /\ tableElements = <<>>
    /\ idx = 0
    /\ rowCounter = 0
    /\ playerKey = UnboundText
    /\ playerRating = UnboundInt
    /\ playerActivity = UnboundInt
    /\ playerRank = UnboundText
    /\ playerJoinDate = UnboundText
    /\ playerData = <<>>
    /\ printed = {}
    /\ error = "none"

----------------------------------------------------------------------------
(* The statistics decoder. *)

\* Values of parse_value: None, an int, a float (number / 10^scale, or nan)
\* and a str
PyNone == [kind |-> "None", number |-> 0, scale |-> 0, text |-> <<>>]
PyInt(n) == [kind |-> "int", number |-> n, scale |-> 0, text |-> <<>>]
PyFloat(n, scale) == [kind |-> "float", number |-> n, scale |-> scale, text |-> <<>>]
PyNaN == [kind |-> "float", number |-> 0, scale |-> 0, text |-> <<"n", "a", "n">>]
PyStr(s) == [kind |-> "str", number |-> 0, scale |-> 0, text |-> s]

UpperChar(c) == CASE c = "n" -> "N"
                  [] c = "a" -> "A"
                  [] OTHER -> c

\* str.upper()
Upper(s) == [i \in 1..Len(s) |-> UpperChar(s[i])]

\* s.replace(",", "")
RECURSIVE RemoveCommas(_)
RemoveCommas(s) == IF s = <<>> THEN <<>>
                   ELSE IF Head(s) = "," THEN RemoveCommas(Tail(s))
                   ELSE <<Head(s)>> \o RemoveCommas(Tail(s))

Unsigned(s) == IF s # <<>> /\ Head(s) \in {"-", "+"} THEN Tail(s) ELSE s

DotsIn(s) == Cardinality({i \in 1..Len(s) : s[i] = "."})

DigitsOf(s) == SelectSeq(s, LAMBDA c : c \in DecimalChars)

\* the digits behind the point
FractionLen(s) ==
    IF DotsIn(s) = 0 THEN 0
    ELSE Len(s) - (CHOOSE i \in 1..Len(s) : s[i] = ".")

\* float(s) on stripped text: an optional sign, then decimals with at most
\* one point and at least one decimal, or nan; a ValueError otherwise
FloatOf(s) ==
    LET body == Unsigned(s) IN
    IF Upper(body) = <<"N", "A", "N">>
    THEN [ok |-> TRUE, value |-> PyNaN]
    ELSE IF /\ \A i \in 1..Len(body) : body[i] \in DecimalChars \cup {"."}
            /\ DotsIn(body) <= 1
            /\ DigitsOf(body) # <<>>
    THEN [ok |-> TRUE,
          value |-> PyFloat((IF s[1] = "-" THEN 0 - 1 ELSE 1) * DecimalOf(DigitsOf(body)),
                            FractionLen(body))]
    ELSE [ok |-> FALSE, value |-> PyNone]

\* lines 182-192
parse_value(text) ==
    LET s == Strip(text)
        s_clean == RemoveCommas(s)
    IN  IF s = <<>> \/ Upper(s) = <<"N", "/", "A">>
        THEN [raises |-> FALSE, value |-> PyNone]
        ELSE IF IsDigit(s_clean)
        THEN IF IntOf(s_clean).ok
             THEN [raises |-> FALSE, value |-> PyInt(IntOf(s_clean).value)]
             ELSE [raises |-> TRUE, value |-> PyNone]
        ELSE IF FloatOf(s_clean).ok
        THEN [raises |-> FALSE, value |-> FloatOf(s_clean).value]
        ELSE [raises |-> FALSE, value |-> PyStr(s)]

\* line 173
labels == <<"Air targets destroyed", "Ground targets destroyed", "Deaths", "Flight Time">>

MaxGroups == 2

MaxValues == 5

\* an li of class squadrons-stat__item-value; label says it also carries
\* squadrons-stat__item-value--label
Li(label, text) == [label |-> label, text |-> text]

LiPool(position) ==
    CASE position = 1 -> {Li(FALSE, <<"1", ",", "2">>), Li(FALSE, <<"N", "/", "A">>),
                          Li(FALSE, <<"^2">>)}
      [] position = 2 -> {Li(FALSE, <<"3", ".", "5">>), Li(FALSE, <<"n", "/", "a">>),
                          Li(TRUE, <<"U">>)}
      [] position = 3 -> {Li(FALSE, <<"U">>), Li(FALSE, <<>>), Li(FALSE, <<" ", "7", " ">>)}
      [] position = 4 -> {Li(FALSE, <<"-", "5">>), Li(FALSE, <<",">>)}
      [] OTHER -> {Li(FALSE, <<"7">>)}

RECURSIVE Groups(_)
Groups(n) ==
    IF n = 0 THEN {<<>>}
    ELSE {Append(g, li) : g \in Groups(n - 1), li \in LiPool(n)}

GroupPool == UNION {Groups(n) : n \in 0..MaxValues}

OtherGroups == {<<>>, <<Li(FALSE, <<"7">>)>>}

\* the lists of ul groups of a page: one group of the pool among small ones
UlLists ==
    {<<>>} \cup
    UNION {{uls \in [1..n -> GroupPool \cup OtherGroups] :
               \E g \in 1..n : \A i \in 1..n : i # g => uls[i] \in OtherGroups}
           : n \in 1..MaxGroups}

\* the BeautifulSoup view of a page: whether it holds the statistics
\* container, and the ul groups in it
StatPages ==
    {[container |-> FALSE, uls |-> <<>>]} \cup
    {[container |-> TRUE, uls |-> u] : u \in UlLists}

StatsIdle ==
    /\ statsHtml = [container |-> FALSE, uls |-> <<>>]
    /\ ul_index = 1
    /\ spc = "idle"
    /\ value_lis = <<>>
    /\ values = <<>>
    /\ mapped = <<>>
    /\ statsPrinted = {}
    /\ statsError = "none"

\* seq[i] in Python: negative indices count from the end
PyIndex(seq, i) ==
    IF 0 <= i /\ i < Len(seq) THEN [raises |-> FALSE, at |-> i + 1]
    ELSE IF i < 0 /\ 0 - i <= Len(seq) THEN [raises |-> FALSE, at |-> Len(seq) + i + 1]
    ELSE [raises |-> TRUE, at |-> 0]

\* line 168: not uls or ul_index < 0 or ul_index >= len(uls)
NoSuchGroupNoSign(uls, i) == uls = <<>> \/ i >= Len(uls)
NoSuchGroup(uls, i) == uls = <<>> \/ i < 0 \/ i >= Len(uls)

\* lines 176-179: the value items that are no labels
ValueItems(group) == SelectSeq(group, LAMBDA li : ~li.label)

\* line 195
Paired(vals) == IF Len(labels) < Len(vals) THEN Len(labels) ELSE Len(vals)

\* lines 158-164
StatsFindContainer ==
    /\ spc = "start"
    /\ IF ~statsHtml.container
       THEN /\ statsPrinted' = statsPrinted \cup {"No container found"}
            /\ spc' = "done"
       ELSE /\ spc' = "uls"
            /\ UNCHANGED statsPrinted
    /\ UNCHANGED <<statsHtml, ul_index, value_lis, values, mapped, statsError>>
    /\ UNCHANGED <<cacheVars, rosterVars>>

\* lines 166-179
StatsSelectGroup ==
    /\ spc = "uls"
    /\ IF NoSuchGroup(statsHtml.uls, ul_index)
       THEN /\ statsPrinted' = statsPrinted \cup {"No uls found"}
            /\ spc' = "done"
            /\ UNCHANGED <<value_lis, statsError>>
       ELSE IF PyIndex(statsHtml.uls, ul_index).raises
       THEN /\ spc' = "raised"
            /\ statsError' = "IndexError"
            /\ UNCHANGED <<value_lis, statsPrinted>>
       ELSE /\ value_lis' = ValueItems(statsHtml.uls[PyIndex(statsHtml.uls, ul_index).at])
            /\ spc' = "values"
            /\ UNCHANGED <<statsPrinted, statsError>>
    /\ UNCHANGED <<statsHtml, ul_index, values, mapped>>
    /\ UNCHANGED <<cacheVars, rosterVars>>

\* line 193: the next li of the list comprehension
StatsParseValue ==
    /\ spc = "values"
    /\ value_lis # <<>>
    /\ IF parse_value(Head(value_lis).text).raises
       THEN /\ spc' = "raised"
            /\ statsError' = "ValueError"
            /\ UNCHANGED <<value_lis, values>>
       ELSE /\ values' = Append(values, parse_value(Head(value_lis).text).value)
            /\ value_lis' = Tail(value_lis)
            /\ UNCHANGED <<spc, statsError>>
    /\ UNCHANGED <<statsHtml, ul_index, mapped, statsPrinted>>
    /\ UNCHANGED <<cacheVars, rosterVars>>

\* lines 195-196
StatsMapLabels ==
    /\ spc = "values"
    /\ value_lis = <<>>
    /\ IF Paired(values) <= Len(labels)
       THEN /\ mapped' = [l \in {labels[i] : i \in 1..Paired(values)} |->
                            values[CHOOSE i \in 1..Paired(values) : labels[i] = l]]
            /\ spc' = "done"
            /\ UNCHANGED statsError
       ELSE /\ spc' = "raised"
            /\ statsError' = "IndexError"
            /\ UNCHANGED mapped
    /\ UNCHANGED <<statsHtml, ul_index, value_lis, values, statsPrinted>>
    /\ UNCHANGED <<cacheVars, rosterVars>>

\* get_clan_stats has the page of line 158 in hand
StatsInit ==
    /\ disable_cache = FALSE
    /\ CacheIdle
    /\ RosterIdle
    /\ statsHtml \in StatPages
    /\ ul_index \in (0 - 1)..(MaxGroups + 1)
    /\ spc = "start"
    /\ value_lis = <<>>
    /\ values = <<>>
    /\ mapped = <<>>
    /\ statsPrinted = {}
    /\ statsError = "none"

StatsNext ==
    \/ StatsFindContainer
    \/ StatsSelectGroup
    \/ StatsParseValue
    \/ StatsMapLabels

SpecStats == StatsInit /\ [][StatsNext]_vars

----------------------------------------------------------------------------
(* The roster decoder's loop. *)

\* rowCounter = (rowCounter + 1) % 6
NextCounter(c) == (c + 1) % RowWidth

\* line 153, and the for loop taking the next cell
Advance ==
    /\ idx' = idx + 1
    /\ rowCounter' = NextCounter(rowCounter)

Raise(exception) ==
    /\ rpc' = "raised"
    /\ error' = exception
    /\ UNCHANGED <<idx, rowCounter>>

InLoop == rpc = "loop" /\ idx < Len(tableElements)

\* row.text.strip() of the cell the loop is at
CellText == Strip(tableElements[idx + 1])

\* lines 116-120 and 123-127: the integer if the text isdigit(), else None;
\* int() raises on a digit that is no decimal
ParseCount(s) ==
    IF IsDigit(s)
    THEN IF IntOf(s).ok THEN [raises |-> FALSE, value |-> IntOf(s).value]
         ELSE [raises |-> TRUE, value |-> None]
    ELSE [raises |-> FALSE, value |-> None]

\* lines 136-141
PlayerRecord == [rating |-> playerRating, activity |-> playerActivity,
                 rank |-> playerRank, joindate |-> playerJoinDate']

DictPut(dict, key, value) ==
    [k \in DOMAIN dict \cup {key} |-> IF k = key THEN value ELSE dict[k]]

\* lines 97-108: parse the page, find the table and its cells
FindTable ==
    /\ rpc = "start"
    /\ IF ~html.table
       THEN \* line 100: table is None and None has no find_all
            /\ Raise("AttributeError")
            /\ UNCHANGED <<tableElements, printed>>
       ELSE /\ tableElements' = html.cells
            /\ printed' = IF html.cells = <<>> THEN {"No tableElements found"} ELSE {}
            /\ rpc' = "loop"
            /\ UNCHANGED <<idx, rowCounter, error>>
    /\ UNCHANGED <<html, playerKey, playerRating, playerActivity, playerRank,
                   playerJoinDate, playerData>>
    /\ UNCHANGED <<cacheVars, statsVars>>

\* rowCounter == 0: no branch of the loop body takes the cell
CellIgnored ==
    /\ InLoop /\ rowCounter = 0
    /\ Advance
    /\ UNCHANGED <<html, rpc, tableElements, playerKey, playerRating, playerActivity,
                   playerRank, playerJoinDate, playerData, printed, error>>
    /\ UNCHANGED <<cacheVars, statsVars>>

\* lines 111-113
CellName ==
    /\ InLoop /\ rowCounter = 1
    /\ playerKey' = CellText
    /\ Advance
    /\ UNCHANGED <<html, rpc, tableElements, playerRating, playerActivity,
                   playerRank, playerJoinDate, playerData, printed, error>>
    /\ UNCHANGED <<cacheVars, statsVars>>

\* lines 114-120
CellRating ==
    /\ InLoop /\ rowCounter = 2
    /\ IF ParseCount(CellText).raises
       THEN Raise("ValueError") /\ UNCHANGED playerRating
       ELSE /\ playerRating' = ParseCount(CellText).value
            /\ Advance
            /\ UNCHANGED <<rpc, error>>
    /\ UNCHANGED <<html, tableElements, playerKey, playerActivity,
                   playerRank, playerJoinDate, playerData, printed>>
    /\ UNCHANGED <<cacheVars, statsVars>>

\* lines 121-127
CellActivity ==
    /\ InLoop /\ rowCounter = 3
    /\ IF ParseCount(CellText).raises
       THEN Raise("ValueError") /\ UNCHANGED playerActivity
       ELSE /\ playerActivity' = ParseCount(CellText).value
            /\ Advance
            /\ UNCHANGED <<rpc, error>>
    /\ UNCHANGED <<html, tableElements, playerKey, playerRating,
                   playerRank, playerJoinDate, playerData, printed>>
    /\ UNCHANGED <<cacheVars, statsVars>>

\* lines 128-130
CellRank ==
    /\ InLoop /\ rowCounter = 4
    /\ playerRank' = CellText
    /\ Advance
    /\ UNCHANGED <<html, rpc, tableElements, playerKey, playerRating, playerActivity,
                   playerJoinDate, playerData, printed, error>>
    /\ UNCHANGED <<cacheVars, statsVars>>

\* lines 131-145: the join date closes the row; the row is stored under the
\* player's name unless its rating is None
CellJoinDate ==
    /\ InLoop /\ rowCounter = 5
    /\ playerJoinDate' = CellText
    /\ IF playerRating # None
       THEN /\ playerData' = DictPut(playerData, playerKey, PlayerRecord)
            /\ UNCHANGED printed
       ELSE /\ printed' = printed \cup {"Skipping"}
            /\ UNCHANGED playerData
    /\ Advance
    /\ UNCHANGED <<html, rpc, tableElements, playerKey, playerRating, playerActivity,
                   playerRank, error>>
    /\ UNCHANGED <<cacheVars, statsVars>>

\* line 154: the loop is over
ReturnPlayerData ==
    /\ rpc = "loop" /\ idx = Len(tableElements)
    /\ rpc' = "done"
    /\ UNCHANGED <<html, tableElements, idx, rowCounter, playerKey, playerRating,
                   playerActivity, playerRank, playerJoinDate, playerData, printed, error>>
    /\ UNCHANGED <<cacheVars, statsVars>>

\* get_players_ratings_from_squadron has the page of line 97 in hand
RosterInit ==
    /\ disable_cache = FALSE
    /\ CacheIdle
    /\ html \in Markups
    /\ rpc = "start"
    /\ tableElements = <<>>
    /\ idx = 0
    /\ rowCounter = 0
    /\ playerKey = UnboundText
    /\ playerRating = UnboundInt
    /\ playerActivity = UnboundInt
    /\ playerRank = UnboundText
    /\ playerJoinDate = UnboundText
    /\ playerData = <<>>
    /\ printed = {}
    /\ error = "none"
    /\ StatsIdle

RosterNext ==
    \/ FindTable
    \/ CellIgnored
    \/ CellName
    \/ CellRating
    \/ CellActivity
    \/ CellRank
    \/ CellJoinDate
    \/ ReturnPlayerData

SpecRoster == RosterInit /\ [][RosterNext]_vars

Init == CacheInit /\ RosterIdle /\ StatsIdle

Next == CacheNext

Spec == Init /\ [][Next]_vars

\* the worker thread of a started fetch ends: scraper.get has timeout=30
FetchEnds(p) == (\E body \in Bodies : FetchOk(p, body)) \/ FetchFail(p)

\* every started fetch ends, and the event loop runs the coroutines it has
\* queued
Fairness == WF_vars(Resume) /\ \A p \in Tasks : WF_vars(FetchEnds(p))

SpecFair == Spec /\ Fairness

----------------------------------------------------------------------------
(* Claims about get_squadron_page_html. *)

Started(p) == pc[p] # "idle"

KeyOf(p) == CacheKey(squadronName[p])

ServedFromCache(p) == pc[p] = "returned" /\ fetches[p] = 0

\* C1: with caching enabled, a call that finds an entry for lowercase(name)
\* younger than 3600 seconds returns exactly that entry's content without
\* starting a fetch, and no call returns a cached body that was 3600 seconds
\* old or older when it was checked.
C1_FreshEntryServed ==
    \A p \in Tasks :
        (Started(p) /\ ~disable_cache) =>
            /\ (seen[p].present /\ ~seen[p].old) =>
                   /\ ServedFromCache(p)
                   /\ thread[p] = "none"
                   /\ result[p] = seen[p].content
            /\ ServedFromCache(p) => (seen[p].present /\ ~seen[p].old)

C1_Witness ==
    \E p \in Tasks :
        /\ ~disable_cache
        /\ ServedFromCache(p)
        /\ squadronName[p] # CacheKey(squadronName[p])
        /\ result[p] = html_cache[CacheKey(squadronName[p])].content
        /\ now - html_cache[CacheKey(squadronName[p])].timestamp = CacheDuration - 1

\* C2: the freshness test is strict: an entry stored at t0 is served for every
\* now < t0 + 3600 and refetched for every now >= t0 + 3600, the boundary
\* now = t0 + 3600 included.
C2_StrictWindow ==
    \A p \in Tasks :
        (Started(p) /\ ~disable_cache /\ seen[p].present) =>
            (fetches[p] = 1 <=> seen[p].old)

C2_Witness ==
    \E p \in Tasks :
        /\ ~disable_cache
        /\ pc[p] = "awaiting"
        /\ fetches[p] = 1
        /\ seen[p].present
        /\ now = html_cache[CacheKey(squadronName[p])].timestamp + CacheDuration

C4_FailureReturnsEmpty ==
    \A p \in Tasks :
        /\ pc[p] # "raised"
        /\ (thread[p] = "failed" /\ pc[p] = "returned") => result[p] = ""

C4_Witness ==
    \E p, q \in Tasks :
        /\ thread[p] = "failed" /\ pc[p] = "returned" /\ result[p] = ""
        /\ thread[q] = "ok" /\ pc[q] = "returned"
        /\ squadronName[p] = squadronName[q]

\* C6: a call assigns html_cache at most once, and not at all when caching is
\* disabled, when it is served from the cache or when its fetch fails; the
\* cache changes only by such an assignment, to the caller's own key.
C6_AtMostOneWrite ==
    /\ [](\A p \in Tasks :
            /\ writes[p] <= 1
            /\ (disable_cache \/ fetches[p] = 0 \/ thread[p] = "failed") => writes[p] = 0)
    /\ [][html_cache' # html_cache =>
            \E p \in Tasks :
                /\ writes'[p] = writes[p] + 1
                /\ \A q \in Tasks \ {p} : writes'[q] = writes[q]
                /\ \A k \in DOMAIN html_cache \ {CacheKey(squadronName[p])} :
                       k \in DOMAIN html_cache' /\ html_cache'[k] = html_cache[k]]_cacheVars

C6_Witness ==
    \E p, q \in Tasks :
        /\ ~disable_cache
        /\ pc[p] = "returned" /\ thread[p] = "ok" /\ writes[p] = 1
        /\ pc[q] = "returned" /\ thread[q] = "failed" /\ writes[q] = 0
        /\ squadronName[p] = squadronName[q]

\* C7: concurrent calls for one key each return the body they fetched, and once
\* the call whose fetch completed last has returned, the entry of the key is
\* the (content, timestamp) pair that call assigned.
C7_LastCompletedWins ==
    /\ \A p \in Tasks :
           (pc[p] = "returned" /\ fetches[p] = 1 /\ thread[p] = "ok") => result[p] = resp[p]
    /\ \A k \in DOMAIN lastPost :
           (~disable_cache /\ pc[lastPost[k]] = "returned") =>
               /\ k \in DOMAIN html_cache
               /\ html_cache[k] = stored[lastPost[k]]
               /\ html_cache[k].content = resp[lastPost[k]]

C7_Witness ==
    \E p, q \in Tasks :
        /\ p # q
        /\ ~disable_cache
        /\ squadronName[p] = squadronName[q]
        /\ ~seen[p].present /\ ~seen[q].present
        /\ pc[p] = "returned" /\ pc[q] = "returned"
        /\ result[p] = "h1" /\ result[q] = "h2"
        /\ stored[p].timestamp < stored[q].timestamp
        /\ lastPost[CacheKey(squadronName[q])] = q
        /\ html_cache[CacheKey(squadronName[q])] = stored[q]

\* C14 as claimed: when the fetch of a call cancelled during its await
\* completes, the entry of the call's key is written with that fetch's body.
C14_CancelledFetchPopulates ==
    [][\A p \in Tasks :
          (~disable_cache /\ pc[p] = "cancelled" /\ thread[p] = "running"
                          /\ thread'[p] = "ok") =>
              /\ KeyOf(p) \in DOMAIN html_cache'
              /\ html_cache'[KeyOf(p)].content = resp'[p]]_vars

\* C14 as amended: the worker of a cancelled call may run to completion, but
\* its body is dropped: the cancelled call never assigns html_cache, and the
\* completion of its worker leaves html_cache as it is.
C14_CancelledNeverStores ==
    /\ [](\A p \in Tasks : pc[p] = "cancelled" => (writes[p] = 0 /\ stored[p] = NoEntry))
    /\ [][\A p \in Tasks :
            (pc[p] = "cancelled" /\ thread[p] = "running" /\ thread'[p] # "running") =>
                html_cache' = html_cache]_vars

C14_Witness ==
    \E p \in Tasks :
        /\ ~disable_cache
        /\ pc[p] = "cancelled"
        /\ thread[p] = "ok"
        /\ resp[p] = "h1"
        /\ KeyOf(p) \notin DOMAIN html_cache

Outcomes == Bodies \cup {""}

\* C15 as claimed: a call starts the fetch at most once, and every call that
\* awaits its fetch eventually returns markup or the empty string.
C15_EveryCallReturns ==
    /\ [](\A p \in Tasks : fetches[p] <= 1)
    /\ \A p \in Tasks :
           (pc[p] = "awaiting") ~> (pc[p] = "returned" /\ result[p] \in Outcomes)

\* C15 as amended: a call starts the fetch at most once, and every call that
\* awaits its fetch eventually returns markup or the empty string, unless it
\* is cancelled.
C15_ReturnsUnlessCancelled ==
    /\ [](\A p \in Tasks : fetches[p] <= 1)
    /\ \A p \in Tasks :
           (pc[p] = "awaiting") ~>
               (pc[p] = "cancelled" \/ (pc[p] = "returned" /\ result[p] \in Outcomes))

C15_Witness ==
    \E p, q \in Tasks :
        /\ pc[p] = "returned" /\ thread[p] = "failed" /\ result[p] = "" /\ fetches[p] = 1
        /\ pc[q] = "returned" /\ thread[q] = "none" /\ result[q] \in Bodies /\ fetches[q] = 0

\* the step on which call p resumes from a fetch that succeeded
ResumesFetched(p) ==
    pc[p] = "awaiting" /\ thread[p] = "ok" /\ pc'[p] = "returned"

\* C16: no step removes a key of html_cache, each key holds one entry, and an
\* entry changes only when a call for its key resumes from a successful
\* fetch, which replaces it whole by that fetch's body and the current time.
C16_EntriesNeverDeleted ==
    [][/\ DOMAIN html_cache \subseteq DOMAIN html_cache'
       /\ \A k \in DOMAIN html_cache :
             html_cache'[k] # html_cache[k] =>
                 \E p \in Tasks :
                     /\ ResumesFetched(p)
                     /\ KeyOf(p) = k
                     /\ html_cache'[k] = [content |-> resp[p], timestamp |-> now]]_vars

\* a stale entry is still in place after the call that found it stale failed
C16_Witness ==
    \E p \in Tasks :
        /\ pc[p] = "returned" /\ thread[p] = "failed"
        /\ seen[p].present /\ seen[p].old
        /\ KeyOf(p) \in DOMAIN html_cache
        /\ html_cache[KeyOf(p)].content = seen[p].content
        /\ html_cache[KeyOf(p)].timestamp = seen[p].timestamp
        /\ now - html_cache[KeyOf(p)].timestamp >= CacheDuration

\* call q has returned from a successful fetch and the entry it stored under
\* its key is the entry of that key now
HoldsEntryOf(q) ==
    /\ pc[q] = "returned" /\ thread[q] = "ok" /\ writes[q] = 1
    /\ KeyOf(q) \in DOMAIN html_cache
    /\ html_cache[KeyOf(q)] = stored[q]
    /\ stored[q].content = resp[q]

\* the names of p and q differ, and only in letter case
OtherSpelling(p, q) ==
    squadronName[p] # squadronName[q] /\ Lower(squadronName[p]) = Lower(squadronName[q])

\* C19: every key of html_cache is lower-cased and every fetch is given the
\* URL of the name as supplied; with caching enabled, a call made less than
\* 3600 seconds after the successful fetch of a name that differs from its
\* own only in letter case returns the body of that fetch, fetched from the
\* other spelling's URL, and starts no fetch.
C19_SpellingsShareEntry ==
    /\ [](\A k \in DOMAIN html_cache : k = Lower(k))
    /\ [](\A p \in Tasks :
            thread[p] # "none" => squadronInfoLink[p] = InfoLink(squadronName[p]))
    /\ [][\A p, q \in Tasks :
            (/\ ~disable_cache
             /\ pc[p] = "idle" /\ pc'[p] # "idle"
             /\ HoldsEntryOf(q)
             /\ OtherSpelling(p, q)'
             /\ now - stored[q].timestamp < CacheDuration) =>
                /\ pc'[p] = "returned"
                /\ result'[p] = resp[q]
                /\ fetches'[p] = 0
                /\ thread'[p] = "none"
                /\ squadronInfoLink[q] # InfoLink(squadronName'[p])]_vars

\* "w" is served the body that was fetched for "W"
C19_Witness ==
    \E p, q \in Tasks :
        /\ HoldsEntryOf(q)
        /\ squadronName[q] = <<"W">> /\ squadronInfoLink[q] = <<"W">>
        /\ squadronName[p] = <<"w">>
        /\ ServedFromCache(p)
        /\ result[p] = resp[q]
        /\ DOMAIN html_cache = {<<"w">>}

\* call p has returned from a fetch that failed
FailedCall(p) == pc[p] = "returned" /\ thread[p] = "failed"

\* the step on which call p resumes from a fetch that failed
ResumesFailed(p) ==
    pc[p] = "awaiting" /\ thread[p] = "failed" /\ pc'[p] = "returned"

\* the entry of p's key is what p found when it checked the cache
EntryAsChecked(p) ==
    IF seen[p].present
    THEN /\ KeyOf(p) \in DOMAIN html_cache
         /\ html_cache[KeyOf(p)].content = seen[p].content
         /\ html_cache[KeyOf(p)].timestamp = seen[p].timestamp
    ELSE KeyOf(p) \notin DOMAIN html_cache

\* every body in html_cache is the body of a successful fetch, and the step
\* on which a call resumes from a failed fetch leaves html_cache as it was
FailureLeavesCache ==
    /\ [](\A k \in DOMAIN html_cache : html_cache[k].content \in Bodies)
    /\ [](\A p \in Tasks : FailedCall(p) => (writes[p] = 0 /\ stored[p] = NoEntry))
    /\ [][\A p \in Tasks : ResumesFailed(p) => html_cache' = html_cache]_vars

\* C18 as claimed: a failed fetch leaves html_cache exactly as it was, every
\* stored body comes from a successful fetch, and once a call has failed, a
\* call for its key made next fetches again.
C18_FailureThenRefetch ==
    /\ FailureLeavesCache
    /\ [](\A p \in Tasks : FailedCall(p) => ~CacheHit(squadronName[p]))

\* C18 as amended: a failed fetch leaves html_cache exactly as it was, every
\* stored body comes from a successful fetch, and once a call has failed, a
\* call for its key made next fetches again unless another call has stored an
\* entry for that key since the failed call checked the cache.
C18_FailureRefetchUnlessStored ==
    /\ FailureLeavesCache
    /\ [](\A p \in Tasks :
            (FailedCall(p) /\ EntryAsChecked(p)) => ~CacheHit(squadronName[p]))

\* a call has failed and its key, absent when it checked, is absent still
C18_Witness ==
    \E p \in Tasks :
        /\ ~disable_cache
        /\ FailedCall(p) /\ result[p] = ""
        /\ ~seen[p].present
        /\ KeyOf(p) \notin DOMAIN html_cache
        /\ html_cache # <<>>

----------------------------------------------------------------------------
(* Claims about get_players_ratings_from_squadron.  What a row is meant to *)
(* yield is stated on the page itself, by chunks of six cells.             *)

Finished == rpc \in {"done", "raised"}

FullRows == Len(html.cells) \div RowWidth

TrailingCells == Len(html.cells) % RowWidth

RowCell(j, position) == html.cells[RowWidth * (j - 1) + position + 1]

\* the trimmed text is one or more of the digits 0-9
AllDecimal(cell) ==
    /\ Strip(cell) # <<>>
    /\ \A i \in 1..Len(Strip(cell)) : Strip(cell)[i] \in DecimalChars

\* the strict parse: the number if the text is all digits, else absent
CountOf(cell) == IF AllDecimal(cell) THEN DecimalOf(Strip(cell)) ELSE None

RowKey(j) == Strip(RowCell(j, 1))

RowRecord(j) == [rating |-> CountOf(RowCell(j, 2)), activity |-> CountOf(RowCell(j, 3)),
                 rank |-> Strip(RowCell(j, 4)), joindate |-> Strip(RowCell(j, 5))]

RowIsStored(j) ==
    /\ rpc = "done"
    /\ RowKey(j) \in DOMAIN playerData
    /\ playerData[RowKey(j)] = RowRecord(j)

\* no rating or activity cell of the page passes isdigit() and fails int()
DecimalPage ==
    \A i \in 1..Len(html.cells) :
        (i - 1) % RowWidth \in {2, 3} =>
            (IsDigit(Strip(html.cells[i])) => AllDecimal(html.cells[i]))

\* On such a page with the roster table the decoder returns, and the mapping
\* holds exactly the names of the full rows with an all-digit rating, each
\* with the record of the last such row; trailing cells add nothing.
RosterOnDecimalPages ==
    (Finished /\ html.table /\ DecimalPage) =>
        /\ rpc = "done"
        /\ DOMAIN playerData =
               {RowKey(j) : j \in {i \in 1..FullRows : AllDecimal(RowCell(i, 2))}}
        /\ \A j \in 1..FullRows :
               (/\ AllDecimal(RowCell(j, 2))
                /\ \A i \in (j + 1)..FullRows :
                       AllDecimal(RowCell(i, 2)) => RowKey(i) # RowKey(j)) =>
                   RowIsStored(j)

\* C5: the decoder never ends in an exception, and on a page without the
\* roster table (the empty page of a failed fetch included) it prints a
\* diagnostic and returns an empty mapping.
C5_NoTableEmptyMapping ==
    Finished =>
        /\ rpc = "done"
        /\ ~html.table => (playerData = <<>> /\ printed # {})

\* C8: N full rows whose ratings are all digits give exactly N records, the
\* record of each row under the row's name with the row's rating, activity,
\* rank and join date.
C8_FullRowsAllRecorded ==
    (/\ Finished
     /\ html.table
     /\ TrailingCells = 0
     /\ \A j \in 1..FullRows : AllDecimal(RowCell(j, 2))) =>
        /\ rpc = "done"
        /\ Cardinality(DOMAIN playerData) = FullRows
        /\ \A j \in 1..FullRows : RowIsStored(j)

\* C9: a row whose rating is not all digits puts no entry into the mapping; a
\* row whose rating is all digits and whose activity is not is stored, with
\* activity None.
C9_OnlyRatingGates ==
    (Finished /\ html.table) =>
        \A j \in 1..FullRows :
            /\ (/\ ~AllDecimal(RowCell(j, 2))
                /\ rpc = "done"
                /\ \A i \in 1..FullRows : i # j => RowKey(i) # RowKey(j)) =>
                   RowKey(j) \notin DOMAIN playerData
            /\ (/\ AllDecimal(RowCell(j, 2))
                /\ ~AllDecimal(RowCell(j, 3))
                /\ \A i \in (j + 1)..FullRows : RowKey(i) # RowKey(j)) =>
                   RowIsStored(j) /\ playerData[RowKey(j)].activity = None

\* C10: 6k + r cells, 0 < r < 6, with numeric ratings and distinct names give
\* exactly the k records of the full rows; the trailing cells add and change
\* nothing.
C10_PartialRowDropped ==
    (/\ Finished
     /\ html.table
     /\ TrailingCells > 0
     /\ \A j \in 1..FullRows : AllDecimal(RowCell(j, 2))
     /\ TrailingCells > 2 => AllDecimal(RowCell(FullRows + 1, 2))
     /\ \A i, j \in 1..(FullRows + (IF TrailingCells > 1 THEN 1 ELSE 0)) :
            i # j => RowKey(i) # RowKey(j)) =>
        /\ rpc = "done"
        /\ Cardinality(DOMAIN playerData) = FullRows
        /\ \A j \in 1..FullRows : RowIsStored(j)

\* C17: when a name is carried by two or more full rows, the mapping holds
\* under that name the record of the last of them whose rating is all digits:
\* later rows of that name with an all-digit rating replace it, later rows of
\* that name with an absent rating neither remove nor change it.
C17_LastWriteWins ==
    (Finished /\ html.table) =>
        \A j \in 1..FullRows :
            (/\ AllDecimal(RowCell(j, 2))
             /\ \E i \in 1..FullRows : i # j /\ RowKey(i) = RowKey(j)
             /\ \A i \in (j + 1)..FullRows :
                    RowKey(i) = RowKey(j) => ~AllDecimal(RowCell(i, 2))) =>
                RowIsStored(j)

\* the rows the loop has closed so far
ClosedRows == idx \div RowWidth

\* In every state, raised ones included, each record of the mapping is the
\* record of one closed row of that name with an all-digit rating, and the
\* last closed row of a name with an all-digit rating is in the mapping:
\* no field comes from another row, whatever the ratings of the rows before.
RecordsOfSingleRows ==
    html.table =>
        /\ \A k \in DOMAIN playerData :
               \E j \in 1..ClosedRows :
                   /\ RowKey(j) = k
                   /\ AllDecimal(RowCell(j, 2))
                   /\ playerData[k] = RowRecord(j)
        /\ \A j \in 1..ClosedRows :
               (/\ AllDecimal(RowCell(j, 2))
                /\ \A i \in (j + 1)..ClosedRows :
                       AllDecimal(RowCell(i, 2)) => RowKey(i) # RowKey(j)) =>
                   /\ RowKey(j) \in DOMAIN playerData
                   /\ playerData[RowKey(j)] = RowRecord(j)

\* no activity cell of the page passes isdigit() and fails int()
DecimalActivities ==
    \A i \in 1..Len(html.cells) :
        (i - 1) % RowWidth = 3 =>
            (IsDigit(Strip(html.cells[i])) => AllDecimal(html.cells[i]))

\* C20: every record of the result has its name, rating, activity, rank and
\* join date from one and the same full row, and a full row with an all-digit
\* rating that follows rows whose rating is absent is in the result with its
\* own fields.
C20_RecordsFromOneRow ==
    (Finished /\ html.table /\ DecimalActivities) =>
        /\ \A k \in DOMAIN playerData :
               \E j \in 1..FullRows :
                   /\ RowKey(j) = k
                   /\ AllDecimal(RowCell(j, 2))
                   /\ playerData[k] = RowRecord(j)
        /\ \A j \in 2..FullRows :
               (/\ AllDecimal(RowCell(j, 2))
                /\ \E i \in 1..(j - 1) : ~AllDecimal(RowCell(i, 2))
                /\ \A i \in (j + 1)..FullRows :
                       AllDecimal(RowCell(i, 2)) => RowKey(i) # RowKey(j)) =>
                   RowIsStored(j)

----------------------------------------------------------------------------
(* Claims about get_clan_stats.  What a value item is meant to yield is     *)
(* stated on its text, by the fallback chain of the specification.          *)

StatsFinished == spc \in {"done", "raised"}

GroupFound ==
    /\ statsHtml.container
    /\ 0 <= ul_index
    /\ ul_index < Len(statsHtml.uls)

\* the texts of the value items of the group asked for, labels left out
ChosenTexts ==
    LET items == SelectSeq(statsHtml.uls[ul_index + 1], LAMBDA li : ~li.label)
    IN  [i \in 1..Len(items) |-> items[i].text]

\* absent, else integer, else float, else the trimmed string
Coerce(text) ==
    IF Strip(text) = <<>> \/ Upper(Strip(text)) = <<"N", "/", "A">> THEN PyNone
    ELSE IF AllDecimal(RemoveCommas(Strip(text)))
    THEN PyInt(DecimalOf(RemoveCommas(Strip(text))))
    ELSE IF FloatOf(RemoveCommas(Strip(text))).ok
    THEN FloatOf(RemoveCommas(Strip(text))).value
    ELSE PyStr(Strip(text))

Overlap == IF Len(ChosenTexts) < 4 THEN Len(ChosenTexts) ELSE 4

PairedByPosition ==
    /\ spc = "done"
    /\ DOMAIN mapped = {labels[i] : i \in 1..Overlap}
    /\ \A i \in 1..Overlap : mapped[labels[i]] = Coerce(ChosenTexts[i])

\* no value item of the group asked for passes isdigit() and fails int()
DecimalGroup ==
    \A i \in 1..Len(ChosenTexts) :
        IsDigit(RemoveCommas(Strip(ChosenTexts[i]))) =>
            AllDecimal(RemoveCommas(Strip(ChosenTexts[i])))

\* On such a group the decoder returns the first min(4, n) labels, each with
\* the coerced value at its position.
StatsOnDecimalGroups ==
    (StatsFinished /\ GroupFound /\ DecimalGroup) => PairedByPosition

\* C11: the i-th value goes with the i-th label and exactly min(4, number of
\* values) entries are returned: the first 3 labels for 3 values, and values
\* beyond the 4th are dropped.
C11_PositionalPairing ==
    (StatsFinished /\ GroupFound) => PairedByPosition

\* C12: parse_value follows the chain absent, integer, float, trimmed string
\* on every value item and never raises.
C12_CoercionChain ==
    /\ statsError # "ValueError"
    /\ \A i \in 1..Len(values) : values[i] = Coerce(ChosenTexts[i])

\* C13: without the container, with no groups, or with a group index that is
\* negative or >= the number of groups, get_clan_stats returns an empty
\* mapping and no fault; it takes a group only for 0 <= index < groups.
C13_NotFoundEmptyMapping ==
    /\ statsError # "IndexError"
    /\ (StatsFinished /\ ~GroupFound) =>
           /\ spc = "done"
           /\ mapped = <<>>
           /\ values = <<>>
           /\ statsPrinted # {}
    /\ (spc = "values" \/ values # <<>> \/ DOMAIN mapped # {}) => GroupFound

C13_Witness ==
    /\ spc = "done"
    /\ statsHtml.container
    /\ Len(statsHtml.uls) = 2
    /\ statsHtml.uls[2] # <<>>
    /\ ul_index < 0
    /\ mapped = <<>>
    /\ statsPrinted = {"No uls found"}

====
